---- MODULE Spec2Model ----
(***************************************************************************)
(* Model of src/src/output.js: the report pipeline run({status}) of the    *)
(* Lighthouse CI action.  It gathers the grouped assertion results, the    *)
(* "changes" link and the gist uploads concurrently, then sends the report *)
(* to Slack and/or to a GitHub check run.                                  *)
(*                                                                         *)
(* Strings that the code takes apart (URLs, repository names, gist names)  *)
(* are sequences of tokens: a token is either a maximal run of \w          *)
(* characters or one punctuation character.  The empty string is <<>>.     *)
(* In the texts that getSummaryMarkdownOutput trims (section headline,     *)
(* field title and value, link) white space at the edge of a piece of      *)
(* text is a token of its own, " " or "\n": no other token of these texts  *)
(* starts or ends with white space, so that trim can be computed.          *)
(* A JavaScript object is a function from its keys; {} is <<>>.            *)
(***************************************************************************)
EXTENDS Integers, Sequences, FiniteSets, TLC

(* ------------------------------ bounds --------------------------------- *)

\* Most lhr-<n>.json files the results directory holds.
MaxFiles == 2
\* Most calls of run() in one behaviour.
MaxRuns == 2
\* Most URL groups, and most results of one group, handed to
\* formatAssertResults on its own.
MaxGroups == 2
MaxGroupSize == 3

(* --------------------------- environment ------------------------------- *)

\* GITHUB_REPOSITORY "o/r" and GITHUB_SHA (output.js:35-36).
githubRepo == <<"o", "/", "r">>
githubSHA == "sha0"
reportTitle == "Lighthouse Report"

\* Inspected URLs: https://a/b, http://a-b (same archive name as the first)
\* and https://c.
U1 == <<"https", ":", "/", "/", "a", "/", "b">>
U2 == <<"http", ":", "/", "/", "a", "-", "b">>
U3 == <<"https", ":", "/", "/", "c">>
URLs == {U1, U2, U3}

Statuses == {0, 1}
LogLevels == {"info", "error", "silent"}

\* One assertion result (LHResult, output.js:21-28).
Res(id, op, url) ==
    [auditId |-> id, auditProperty |-> "maxNumericValue", auditTitle |-> "t",
     expected |-> "0.5", operator |-> op, actual |-> "0.8", url |-> url]

\* assertion-results.json: missing, not JSON, or a list of results.
ResultsAbsent == [kind |-> "absent", data |-> <<>>]
ResultsMalformed == [kind |-> "malformed", data |-> <<>>]
ResultsOf(list) == [kind |-> "ok", data |-> list]
ThreeResults == <<Res("a1", "<=", U1), Res("a2", ">=", U3), Res("a3", "<=", U1)>>

\* What a raw lhr-<n>.json holds: its requestedUrl, or text that is not JSON.
Malformed == <<"{">>
RawContents == {U1, U3, Malformed}

\* Responses of pulls.list: open pull requests in the order the API returns.
PR(sha, link) == [sha |-> sha, html_url |-> link]
NoMatchingPull == <<PR("sha9", <<"pr", "7">>)>>
TwoMatchingPulls ==
    <<PR("sha9", <<"pr", "7">>), PR(githubSHA, <<"pr", "8">>), PR(githubSHA, <<"pr", "9">>)>>

\* Sequences over S of length at most n.
SeqsUpTo(S, n) == UNION {[1..k -> S] : k \in 0..n}

(* --------------------------- pure helpers ------------------------------ *)

EmptyObject == <<>>
isEmpty(obj) == DOMAIN obj = {}

\* s.split('/').join('-')
RECURSIVE SlashesToDashes(_)
SlashesToDashes(s) ==
    IF s = <<>> THEN <<>>
    ELSE <<IF Head(s) = "/" THEN "-" ELSE Head(s)>> \o SlashesToDashes(Tail(s))

IsWord(tok) == tok \notin {":", "/", "-", ".", "?", "="}

\* url.replace(/(^\w+:|^)\/\//, ''): drops a leading "scheme://" or "//".
StripScheme(url) ==
    IF Len(url) >= 4 /\ IsWord(url[1]) /\ url[2] = ":" /\ url[3] = "/" /\ url[4] = "/"
    THEN SubSeq(url, 5, Len(url))
    ELSE IF Len(url) >= 2 /\ url[1] = "/" /\ url[2] = "/"
         THEN SubSeq(url, 3, Len(url))
         ELSE url

\* output.js:190
GistName(url) ==
    <<"lhci-action-lhr-">> \o SlashesToDashes(githubRepo) \o <<"-">>
        \o SlashesToDashes(StripScheme(url)) \o <<".json">>

\* Mutant: the last match is taken.
FirstIndex_Last(matching) ==
    IF matching = {} THEN 0 ELSE CHOOSE i \in matching : \A j \in matching : i >= j

\* lodash find: of the indexes whose elements satisfy the predicate, the
\* first (0: none does).
FirstIndex(matching) ==
    IF matching = {} THEN 0 ELSE CHOOSE i \in matching : \A j \in matching : i <= j

\* lodash groupBy(results, 'url') as the sequence of its groups, keys in
\* first-seen order (output.js:156).
RECURSIVE FirstSeen(_, _)
FirstSeen(results, seen) ==
    IF results = <<>> THEN <<>>
    ELSE IF Head(results).url \in seen THEN FirstSeen(Tail(results), seen)
         ELSE <<Head(results).url>> \o FirstSeen(Tail(results), seen \cup {Head(results).url})

groupBy(results) ==
    LET keys == FirstSeen(results, {})
    IN  [k \in 1..Len(keys) |-> SelectSeq(results, LAMBDA r : r.url = keys[k])]

\* Array.prototype.toString: the elements joined by ",".
RECURSIVE ArrayToString(_)
ArrayToString(arr) ==
    IF arr = <<>> THEN <<>>
    ELSE IF Len(arr) = 1 THEN <<Head(arr)>>
         ELSE <<Head(arr), ",">> \o ArrayToString(Tail(arr))

\* Mutant: the isEmpty test is forgotten; the template then prints a missing
\* id and sha as "undefined".
getLHReportURL_NoEmptyCheck(gist) ==
    <<"https://googlechrome.github.io/lighthouse/viewer/?gist=">>
        \o (IF "id" \in DOMAIN gist THEN ArrayToString(gist.id) ELSE <<"undefined">>)
        \o <<"/", IF "sha" \in DOMAIN gist THEN gist.sha ELSE "undefined">>

\* output.js:354-356
getLHReportURL(gist) ==
    IF isEmpty(gist) THEN <<>>
    ELSE <<"https://googlechrome.github.io/lighthouse/viewer/?gist=">>
            \o ArrayToString(gist.id) \o <<"/", gist.sha>>

\* output.js:263-268
FormatField(res) ==
    [title |-> <<res.auditId, ".", res.auditProperty>>,
     value |-> <<res.auditTitle, " ", "\n", " ", "_Expected", " ", res.expected, " ",
                 " ", IF res.operator = "<=" THEN "less then" ELSE "greater than",
                 " ", "actual", " ", res.actual, "_">>]

Ellipsis == [title |-> <<"...">>, value |-> <<>>]

\* Mutant: any reference with a url matches, whatever the url.
GistUrlIs_AnyUrl(gist, url) == "url" \in DOMAIN gist

\* ({ url }) => url === resultUrl (output.js:255)
GistUrlIs(gist, url) == "url" \in DOMAIN gist /\ gist.url = url

\* Results shown per section: the end of results.slice(0, 2) (output.js:271).
FieldsShown == 2

\* Mutant: the ellipsis is added only when results were left out.
Fields_EllipsisWhenCut(results) ==
    LET shown == SubSeq(results, 1, IF Len(results) < FieldsShown THEN Len(results)
                                    ELSE FieldsShown)
    IN  IF Len(results) > FieldsShown THEN Append(shown, Ellipsis) ELSE shown

\* output.js:271-276
Fields(results) ==
    LET shown == SubSeq(results, 1, IF Len(results) < FieldsShown THEN Len(results)
                                    ELSE FieldsShown)
    IN  IF Len(shown) > 0 THEN Append(shown, Ellipsis) ELSE shown

\* Mutant: the headline counts the results as they are.
Headline_PlainCount(groupedResult, resultUrl) ==
    <<Len(groupedResult), " ", "result(s) for", " ">> \o resultUrl

\* `${groupedResult.length + 1} result(s) for ${resultUrl}` (output.js:288)
Headline(groupedResult, resultUrl) ==
    <<Len(groupedResult) + 1, " ", "result(s) for", " ">> \o resultUrl

\* The two attachments one URL group contributes (output.js:253-293).
FormatGroup(groupedResult, color, gists) ==
    LET resultUrl == IF groupedResult = <<>> THEN <<>> ELSE Head(groupedResult).url
        found == FirstIndex({i \in 1..Len(gists) : GistUrlIs(gists[i], resultUrl)})
        gist == IF found = 0 THEN EmptyObject ELSE gists[found]
        results == [i \in 1..Len(groupedResult) |-> FormatField(groupedResult[i])]
        fields == Fields(results)
        reportURL == getLHReportURL(gist)
        reportUrlField ==
            IF reportURL # <<>>
            THEN [title |-> "View Detailed Lighthouse Report", title_link |-> reportURL,
                  color |-> color]
            ELSE EmptyObject
    IN  << [text |-> Headline(groupedResult, resultUrl),
            color |-> color, fields |-> fields],
           reportUrlField >>

\* output.js:250-295
RECURSIVE FormatGroups(_, _, _)
FormatGroups(groups, color, gists) ==
    IF groups = <<>> THEN <<>>
    ELSE FormatGroup(Head(groups), color, gists) \o FormatGroups(Tail(groups), color, gists)

\* Mutant: the sections are green whatever the status.
formatAssertResults_AlwaysGood(groupedResults, status_, gists) ==
    FormatGroups(groupedResults, "good", gists)

formatAssertResults(groupedResults, status_, gists) ==
    FormatGroups(groupedResults, IF status_ = 0 THEN "good" ELSE "danger", gists)

\* The argument of webhook.send (output.js:98-113).
SlackPayload(status_, changesURL, groupedResults, gists) ==
    LET color == IF status_ = 0 THEN "good" ELSE "danger"
        conclusion == IF status_ = 0 THEN "success" ELSE "failure"
        changesTitle ==
            IF changesURL.pullRequest # <<>>
            THEN <<"Pull Request ", conclusion, " - <", changesURL.pullRequest,
                   " | View on GitHub>">>
            ELSE <<"Changes ", conclusion, " - <", changesURL.sha, " | View SHA Changes>">>
    IN  [attachments |->
            << [pretext |-> <<"GitHub Actions / ", reportTitle>>, title |-> changesTitle,
                color |-> color] >>
            \o formatAssertResults(groupedResults, status_, gists)]

\* A token of white space (or of no character at all).
IsBlank(tok) == tok \in {" ", "\n", "\t", ""}

\* String.prototype.trim on a text kept as its lines, each a sequence of
\* tokens: all white space at either end goes, line breaks (empty lines)
\* and blanks alike.  A text left empty is <<>>.
RECURSIVE TrimLeft(_)
TrimLeft(lines) ==
    IF lines = <<>> THEN <<>>
    ELSE IF Head(lines) = <<>> THEN TrimLeft(Tail(lines))
    ELSE IF IsBlank(Head(lines)[1]) THEN TrimLeft(<<Tail(Head(lines))>> \o Tail(lines))
    ELSE lines

RECURSIVE TrimRight(_)
TrimRight(lines) ==
    IF lines = <<>> THEN <<>>
    ELSE LET n == Len(lines)
             last == lines[n]
             before == SubSeq(lines, 1, n - 1)
         IN  IF last = <<>> THEN TrimRight(before)
             ELSE IF IsBlank(last[Len(last)])
                  THEN TrimRight(Append(before, SubSeq(last, 1, Len(last) - 1)))
                  ELSE lines

Trim(lines) == TrimRight(TrimLeft(lines))

\* fieldsTemplate (output.js:313-323), as lines.
RECURSIVE FieldLines(_)
FieldLines(fields) ==
    IF fields = <<>> THEN <<>>
    ELSE Trim(<< <<"**">> \o Head(fields).title \o <<"**">>, Head(fields).value >>)
            \o FieldLines(Tail(fields))

fieldsTemplate(result) ==
    IF "fields" \in DOMAIN result
    THEN (IF result.fields = <<>> THEN << <<>> >> ELSE FieldLines(result.fields))
    ELSE IF "title_link" \in DOMAIN result
         THEN << <<"[", result.title, "](">> \o result.title_link \o <<")">> >>
         ELSE << <<>>, <<>> >>

\* resultTitle (output.js:328-330)
resultTitle(result) ==
    IF "text" \in DOMAIN result THEN <<"###", " ">> \o result.text ELSE <<>>

\* summaryResultsTempalte (output.js:336-338): one trimmed block per attachment.
summaryResultsTempalte(summaryResults) ==
    [i \in 1..Len(summaryResults) |->
        Trim(<<resultTitle(summaryResults[i])>> \o fieldsTemplate(summaryResults[i]))]

\* output.js:301-348
getSummaryMarkdownOutput(status_, changesURL, groupedResults, gists) ==
    LET conclusion == IF status_ = 0 THEN "success" ELSE "failure"
        title == IF changesURL.pullRequest # <<>>
                 THEN <<"Pull Request ", conclusion>> ELSE <<"Changes ", conclusion>>
        changesLink ==
            IF changesURL.pullRequest # <<>>
            THEN <<"[View on GitHub](", changesURL.pullRequest, ")">>
            ELSE <<"[View SHA Changes](", changesURL.sha, ")">>
        summaryResults == formatAssertResults(groupedResults, status_, gists)
    IN  [title |-> title,
         summary |-> [changesLink |-> changesLink,
                      results |-> summaryResultsTempalte(summaryResults)]]

\* Mutant: the check run is rendered without the archive references.
CheckBody_WithoutGists(status_, changesURL, groupedResults, gists) ==
    [owner |-> githubRepo[1], repo |-> githubRepo[3], head_sha |-> githubSHA,
     name |-> reportTitle, status |-> "completed",
     conclusion |-> IF status_ = 0 THEN "success" ELSE "failure",
     output |-> getSummaryMarkdownOutput(status_, changesURL, groupedResults, <<EmptyObject>>)]

\* checkBody (output.js:123-133)
CheckBody(status_, changesURL, groupedResults, gists) ==
    [owner |-> githubRepo[1], repo |-> githubRepo[3], head_sha |-> githubSHA,
     name |-> reportTitle, status |-> "completed",
     conclusion |-> IF status_ = 0 THEN "success" ELSE "failure",
     output |-> getSummaryMarkdownOutput(status_, changesURL, groupedResults, gists)]

\* output.js:222
shaChangesURL ==
    <<"https://github.com", "/">> \o githubRepo \o <<"/", "commit", "/", githubSHA>>

\* The value getChangesUrl returns without a token (output.js:224-229).
ChangesWithoutToken == [pullRequest |-> <<>>, sha |-> shaChangesURL]

\* Mutant: the first listed pull request is taken, whatever its head commit.
ChangesFromPulls_FirstPull(pulls) ==
    [pullRequest |-> IF pulls = <<>> THEN <<>> ELSE pulls[1].html_url,
     sha |-> shaChangesURL]

\* The value getChangesUrl returns for a pulls.list response (output.js:238-243).
ChangesFromPulls(pulls) ==
    LET found == FirstIndex({i \in 1..Len(pulls) : pulls[i].sha = githubSHA})
    IN  [pullRequest |-> IF found = 0 THEN <<>> ELSE pulls[found].html_url,
         sha |-> shaChangesURL]

(* ------------------------------ state ---------------------------------- *)

VARIABLES
    input,      \* the configuration module ./input (output.js:7, 46-53)
    env,        \* the results directory and the repository's open pull requests
    status,     \* the argument of the current call of run
    pc,         \* "idle", "gathering", "notifying", "resolved" or "rejected"
    runs,       \* calls of run so far
    runError,   \* what the promise of run rejected with
    firstFailure, \* the first error thrown in this run
    grouped,    \* promise of getGroupedAssertionResultsByURL
    changes,    \* promise of getChangesUrl
    uploads,    \* one uploadResultToGist per raw file
    gistsP,     \* promise of uploadResultsToGist
    store,      \* the gists of the token's owner
    chat,       \* promise of slackNotification, with what was sent
    check,      \* promise of githubNotification, with the check body
    calls,      \* calls made in this run, per adapter method
    fmt         \* a call of formatAssertResults on its own: arguments and result

vars == <<input, env, status, pc, runs, runError, firstFailure, grouped, changes, uploads,
          gistsP, store, chat, check, calls, fmt>>

NoError == <<"none", 0>>
Methods == {"readFile", "readdir", "pulls.list", "gists.list", "gists.create",
            "gists.update", "webhook.send", "checks.createSuite", "checks.create"}
NoCalls == [m \in Methods |-> 0]
Called(cl, m) == [cl EXCEPT ![m] = @ + 1]

Unstarted == [st |-> "none", val |-> <<>>]
NoChat == [st |-> "none", payload |-> EmptyObject]
NoCheck == [st |-> "none", body |-> EmptyObject]
NoFormat == [groupedResults |-> <<>>, status |-> 0, gists |-> <<>>, called |-> FALSE,
             out |-> <<>>]

Inputs ==
    [logLevel : LogLevels,
     slackWebhookUrl : {"", "hook"},
     applicationGithubToken : {"", "app-token"},
     personalGithubToken : {"", "personal-token"},
     githubNotification : BOOLEAN,
     slackNotification : BOOLEAN]

\* The results directory (.lighthouseci) may be missing; if it is there, it
\* may hold the aggregate file and raw result files.
Env(dirExists, results, raw, pulls) ==
    [dirExists |-> dirExists, results |-> results, raw |-> raw, pulls |-> pulls]

Envs ==
    {Env(FALSE, ResultsAbsent, <<>>, pulls) : pulls \in {NoMatchingPull, TwoMatchingPulls}}
    \cup {Env(TRUE, results, raw, pulls) :
            results \in {ResultsAbsent, ResultsMalformed, ResultsOf(ThreeResults)},
            raw \in {<<>>, <<U1>>, <<Malformed>>, <<U1, U3>>},
            pulls \in {NoMatchingPull, TwoMatchingPulls}}

Idle ==
    /\ status = 0
    /\ pc = "idle"
    /\ runs = 0
    /\ runError = NoError
    /\ firstFailure = NoError
    /\ grouped = Unstarted
    /\ changes = Unstarted
    /\ uploads = <<>>
    /\ gistsP = Unstarted
    /\ store = <<>>
    /\ chat = NoChat
    /\ check = NoCheck
    /\ calls = NoCalls

Init ==
    /\ input \in Inputs
    /\ env \in Envs
    /\ Idle
    /\ fmt = NoFormat

(* ---------------------------- the pipeline ----------------------------- *)

\* Mutant: log level "error" passes the gate whatever the status.
shouldRunOutput_AnyStatus(st) ==
    input.logLevel = "info" \/ input.logLevel = "error"

\* output.js:53
shouldRunOutput(st) ==
    input.logLevel = "info" \/ (input.logLevel = "error" /\ st # 0)

\* Mutants: a channel is enabled by its switch alone / by its credential alone.
slackEnabled_SwitchOnly == input.slackNotification
githubEnabled_TokenOnly == input.applicationGithubToken # ""

\* output.js:59-60
slackEnabled == input.slackNotification /\ input.slackWebhookUrl # ""
githubEnabled == input.githubNotification /\ input.applicationGithubToken # ""

\* Mutant: with both channels enabled the check run is not started along
\* with the chat message.
Dispatch_ChatAlone(groupedResults, changesURL, gists, cl) ==
    LET slack == [st |-> "pending",
                  payload |-> SlackPayload(status', changesURL, groupedResults, gists)]
        github == [st |-> "suite",
                   body |-> CheckBody(status', changesURL, groupedResults, gists)]
    IN  IF slackEnabled
        THEN /\ chat' = slack
             /\ check' = NoCheck
             /\ calls' = Called(cl, "webhook.send")
             /\ pc' = "notifying"
        ELSE IF githubEnabled
        THEN /\ chat' = NoChat
             /\ check' = github
             /\ calls' = Called(cl, "checks.createSuite")
             /\ pc' = "notifying"
        ELSE /\ chat' = NoChat
             /\ check' = NoCheck
             /\ calls' = cl
             /\ pc' = "resolved"

\* output.js:72-83: both notifications start in the same turn; each runs up
\* to its first adapter call.
Dispatch(groupedResults, changesURL, gists, cl) ==
    LET slack == [st |-> "pending",
                  payload |-> SlackPayload(status', changesURL, groupedResults, gists)]
        github == [st |-> "suite",
                   body |-> CheckBody(status', changesURL, groupedResults, gists)]
    IN  IF githubEnabled /\ slackEnabled
        THEN /\ chat' = slack
             /\ check' = github
             /\ calls' = Called(Called(cl, "webhook.send"), "checks.createSuite")
             /\ pc' = "notifying"
        ELSE IF githubEnabled
        THEN /\ chat' = NoChat
             /\ check' = github
             /\ calls' = Called(cl, "checks.createSuite")
             /\ pc' = "notifying"
        ELSE IF slackEnabled
        THEN /\ chat' = slack
             /\ check' = NoCheck
             /\ calls' = Called(cl, "webhook.send")
             /\ pc' = "notifying"
        ELSE /\ chat' = NoChat
             /\ check' = NoCheck
             /\ calls' = cl
             /\ pc' = "resolved"

\* The promise of uploadResultsToGist, given its uploads (Promise.all,
\* output.js:169-173): rejected once, by the first upload to fail; fulfilled
\* with every reference, in file order, when all are done.
GistsPromise(prev, ups) ==
    IF prev.st # "pending" THEN prev
    ELSE IF \E i \in 1..Len(ups) : ups[i].st = "failed" THEN [st |-> "failed", val |-> <<>>]
    ELSE IF \A i \in 1..Len(ups) : ups[i].st = "done"
         THEN [st |-> "ok", val |-> [i \in 1..Len(ups) |-> ups[i].gist]]
         ELSE prev

\* Mutants: the join does not wait for the uploads / only a failed results
\* read is thrown.
Joined_WithoutUploads(g, c, a) == g.st = "ok" /\ c.st = "ok"
Thrown_ResultsOnly(g, c, a) == g.st = "failed"

\* await Promise.all([...]) of output.js:65-70 goes on when all three are
\* fulfilled, and throws when one is rejected.
Joined(g, c, a) == g.st = "ok" /\ c.st = "ok" /\ a.st = "ok"
Thrown(g, c, a) == g.st = "failed" \/ c.st = "failed" \/ a.st = "failed"

\* One turn of the gathering phase (await Promise.all, output.js:65-70, and
\* the catch of output.js:84-87): p is the state of run when the turn
\* starts, g, c and a the three promises after it, cl the calls made so far,
\* ff the first error thrown before this turn, err the error thrown in it.
GatherStep(p, g, c, a, cl, ff, err) ==
    /\ grouped' = g
    /\ changes' = c
    /\ gistsP' = a
    /\ firstFailure' = IF ff = NoError THEN err ELSE ff
    /\ IF p # "gathering"
       THEN /\ calls' = cl
            /\ UNCHANGED <<pc, runError, chat, check>>
       ELSE IF Thrown(g, c, a)
       THEN /\ pc' = "rejected"
            /\ runError' = err
            /\ calls' = cl
            /\ chat' = NoChat
            /\ check' = NoCheck
       ELSE IF Joined(g, c, a)
       THEN /\ Dispatch(g.val, c.val, a.val, cl)
            /\ runError' = NoError
       ELSE /\ pc' = "gathering"
            /\ runError' = NoError
            /\ calls' = cl
            /\ chat' = NoChat
            /\ check' = NoCheck

\* Nothing of the previous run is still in flight.
Settled ==
    /\ grouped.st # "pending"
    /\ changes.st # "pending"
    /\ \A i \in 1..Len(uploads) : uploads[i].st \in {"done", "failed"}
    /\ chat.st # "pending"
    /\ check.st \notin {"suite", "create"}

\* Mutant: the existsSync test is forgotten; the file is always read.
GroupedAtCall_AlwaysRead(results) == [st |-> "pending", val |-> <<>>]

\* getGroupedAssertionResultsByURL up to its first await (output.js:148-153):
\* without the file it returns [] at once, otherwise it starts the read.
GroupedAtCall(results) ==
    IF results.kind = "absent" THEN [st |-> "ok", val |-> <<>>]
    ELSE [st |-> "pending", val |-> <<>>]

\* getChangesUrl up to its first await (output.js:222-236).
ChangesAtCall(token) ==
    IF token = "" THEN [st |-> "ok", val |-> ChangesWithoutToken]
    ELSE [st |-> "pending", val |-> <<>>]

NewUpload == [st |-> "read", url |-> <<>>, existing |-> 0, gist |-> EmptyObject]

\* A call of run({status}) (output.js:44-70), up to its first await.
run(st) ==
    /\ pc \in {"idle", "resolved", "rejected"}
    /\ Settled
    /\ runs < MaxRuns
    /\ runs' = runs + 1
    /\ status' = st
    /\ UNCHANGED <<input, env, store, fmt>>
    /\ IF ~shouldRunOutput(st)
       THEN /\ pc' = "resolved"
            /\ runError' = NoError
            /\ firstFailure' = NoError
            /\ grouped' = Unstarted
            /\ changes' = Unstarted
            /\ uploads' = <<>>
            /\ gistsP' = Unstarted
            /\ chat' = NoChat
            /\ check' = NoCheck
            /\ calls' = NoCalls
       ELSE LET token == input.personalGithubToken # ""
                dirExists == env.dirExists
                n == Len(env.raw)
                g == GroupedAtCall(env.results)
                c == ChangesAtCall(input.personalGithubToken)
                ups == IF token /\ dirExists THEN [i \in 1..n |-> NewUpload] ELSE <<>>
                a == IF ~token THEN [st |-> "ok", val |-> <<EmptyObject>>]
                     ELSE IF ~dirExists THEN [st |-> "failed", val |-> <<>>]
                     ELSE GistsPromise([st |-> "pending", val |-> <<>>], ups)
                cl == [NoCalls EXCEPT
                         !["readFile"] = (IF g.st = "pending" THEN 1 ELSE 0) + Len(ups),
                         !["pulls.list"] = IF token THEN 1 ELSE 0,
                         !["readdir"] = IF token THEN 1 ELSE 0]
                err == IF token /\ ~dirExists THEN <<"readdir", 0>> ELSE NoError
            IN  /\ uploads' = ups
                /\ GatherStep("gathering", g, c, a, cl, NoError, err)

\* The read of assertion-results.json completes (output.js:153-156).
ReadAssertionResults ==
    /\ grouped.st = "pending"
    /\ UNCHANGED <<input, env, status, runs, uploads, store, fmt>>
    /\ LET ok == env.results.kind = "ok"
           g == IF ok THEN [st |-> "ok", val |-> groupBy(env.results.data)]
                ELSE [st |-> "failed", val |-> <<>>]
           err == IF ok THEN NoError ELSE <<"results.parse", 0>>
       IN  GatherStep(pc, g, changes, gistsP, calls, firstFailure, err)

\* pulls.list answers (output.js:233-243).
PullsList(ok) ==
    /\ changes.st = "pending"
    /\ UNCHANGED <<input, env, status, runs, uploads, store, fmt>>
    /\ LET c == IF ok THEN [st |-> "ok", val |-> ChangesFromPulls(env.pulls)]
                ELSE [st |-> "failed", val |-> <<>>]
           err == IF ok THEN NoError ELSE <<"pulls.list", 0>>
       IN  GatherStep(pc, grouped, c, gistsP, calls, firstFailure, err)

\* The read of raw file i completes; the upload parses it, derives the gist
\* name and asks for the list of gists (output.js:185-192).
ReadRawResult(i) ==
    /\ i \in 1..Len(uploads)
    /\ uploads[i].st = "read"
    /\ UNCHANGED <<input, env, status, runs, store, fmt>>
    /\ LET ok == env.raw[i] # Malformed
           ups == IF ok
                  THEN [uploads EXCEPT ![i].st = "list", ![i].url = env.raw[i]]
                  ELSE [uploads EXCEPT ![i].st = "failed"]
           cl == IF ok THEN Called(calls, "gists.list") ELSE calls
           err == IF ok THEN NoError ELSE <<"raw.parse", i>>
       IN  /\ uploads' = ups
           /\ GatherStep(pc, grouped, changes, GistsPromise(gistsP, ups), cl, firstFailure, err)

\* Mutant: the listing is not searched; every upload creates.
ExistingGist_NeverFound(listing, gistName) == 0

\* find(gists.data, gist => its files have one named gistName) (output.js:193-196)
ExistingGist(listing, gistName) ==
    FirstIndex({i \in 1..Len(listing) : gistName \in listing[i].files})

\* gists.list answers upload i, which picks update or create and calls it
\* (output.js:192-208).
GistsList(i, ok) ==
    /\ i \in 1..Len(uploads)
    /\ uploads[i].st = "list"
    /\ UNCHANGED <<input, env, status, runs, store, fmt>>
    /\ LET found == ExistingGist(store, GistName(uploads[i].url))
           existing == IF found = 0 THEN 0 ELSE store[found].id
           ups == IF ok
                  THEN [uploads EXCEPT ![i].st = "write", ![i].existing = existing]
                  ELSE [uploads EXCEPT ![i].st = "failed"]
           cl == IF ~ok THEN calls
                 ELSE IF existing # 0 THEN Called(calls, "gists.update")
                 ELSE Called(calls, "gists.create")
           err == IF ok THEN NoError ELSE <<"gists.list", i>>
       IN  /\ uploads' = ups
           /\ GatherStep(pc, grouped, changes, GistsPromise(gistsP, ups), cl, firstFailure, err)

\* The store after gists.create / gists.update of one file.
StoreCreate(st, gistName) ==
    Append(st, [id |-> Len(st) + 1, files |-> {gistName}, versions |-> 1])
StoreUpdate(st, id, gistName) ==
    [st EXCEPT ![id].files = @ \cup {gistName}, ![id].versions = @ + 1]

\* gists.create / gists.update answers upload i, which returns its
\* reference (output.js:208-214).
GistsWrite(i, ok) ==
    /\ i \in 1..Len(uploads)
    /\ uploads[i].st = "write"
    /\ UNCHANGED <<input, env, status, runs, fmt>>
    /\ LET up == uploads[i]
           gistName == GistName(up.url)
           st2 == IF ~ok THEN store
                  ELSE IF up.existing # 0 THEN StoreUpdate(store, up.existing, gistName)
                  ELSE StoreCreate(store, gistName)
           id == IF up.existing # 0 THEN up.existing ELSE Len(st2)
           ref == [url |-> up.url, id |-> <<id>>, sha |-> st2[id].versions]
           ups == IF ok THEN [uploads EXCEPT ![i].st = "done", ![i].gist = ref]
                  ELSE [uploads EXCEPT ![i].st = "failed"]
           err == IF ok THEN NoError ELSE <<"gists.write", i>>
       IN  /\ store' = st2
           /\ uploads' = ups
           /\ GatherStep(pc, grouped, changes, GistsPromise(gistsP, ups), calls, firstFailure, err)

\* One turn of the notification phase (output.js:75-87): ch and ck are the
\* two notification promises after it, err the error thrown in it.
NotifyStep(ch, ck, cl, err) ==
    /\ chat' = ch
    /\ check' = ck
    /\ calls' = cl
    /\ firstFailure' = IF firstFailure = NoError THEN err ELSE firstFailure
    /\ IF pc # "notifying"
       THEN UNCHANGED <<pc, runError>>
       ELSE IF ch.st = "failed" \/ ck.st = "failed"
       THEN /\ pc' = "rejected"
            /\ runError' = err
       ELSE IF ch.st \in {"none", "ok"} /\ ck.st \in {"none", "ok"}
       THEN /\ pc' = "resolved"
            /\ runError' = NoError
       ELSE UNCHANGED <<pc, runError>>
    /\ UNCHANGED <<input, env, status, runs, grouped, changes, uploads, gistsP, store, fmt>>

\* webhook.send settles (output.js:104).
WebhookSend(ok) ==
    /\ chat.st = "pending"
    /\ NotifyStep([chat EXCEPT !.st = IF ok THEN "ok" ELSE "failed"], check, calls,
                  IF ok THEN NoError ELSE <<"webhook.send", 0>>)

\* Mutant: checks.create is called whatever checks.createSuite answered.
ChecksCreateSuite_CreateAnyway(ok) ==
    /\ check.st = "suite"
    /\ NotifyStep(chat, [check EXCEPT !.st = IF ok THEN "create" ELSE "failed"],
                  Called(calls, "checks.create"),
                  IF ok THEN NoError ELSE <<"checks.createSuite", 0>>)

\* checks.createSuite settles; on success checks.create is called
\* (output.js:135-141).
ChecksCreateSuite(ok) ==
    /\ check.st = "suite"
    /\ NotifyStep(chat, [check EXCEPT !.st = IF ok THEN "create" ELSE "failed"],
                  IF ok THEN Called(calls, "checks.create") ELSE calls,
                  IF ok THEN NoError ELSE <<"checks.createSuite", 0>>)

\* checks.create settles (output.js:141).
ChecksCreate(ok) ==
    /\ check.st = "create"
    /\ NotifyStep(chat, [check EXCEPT !.st = IF ok THEN "ok" ELSE "failed"], calls,
                  IF ok THEN NoError ELSE <<"checks.create", 0>>)

Next ==
    \/ \E st \in Statuses : run(st)
    \/ ReadAssertionResults
    \/ \E ok \in BOOLEAN : PullsList(ok)
    \/ \E i \in 1..MaxFiles : ReadRawResult(i)
    \/ \E i \in 1..MaxFiles, ok \in BOOLEAN : GistsList(i, ok)
    \/ \E i \in 1..MaxFiles, ok \in BOOLEAN : GistsWrite(i, ok)
    \/ \E ok \in BOOLEAN : WebhookSend(ok)
    \/ \E ok \in BOOLEAN : ChecksCreateSuite(ok)
    \/ \E ok \in BOOLEAN : ChecksCreate(ok)

Spec == Init /\ [][Next]_vars

\* The archiving runs: every channel and the archiving token configured,
\* every results directory of at most MaxFiles raw files.
ArchiveInput ==
    [logLevel |-> "info", slackWebhookUrl |-> "hook", applicationGithubToken |-> "app-token",
     personalGithubToken |-> "personal-token", githubNotification |-> TRUE,
     slackNotification |-> TRUE]

ArchiveEnvs ==
    {Env(TRUE, ResultsOf(ThreeResults), raw, TwoMatchingPulls) :
        raw \in SeqsUpTo(RawContents, MaxFiles)}

InitArchive ==
    /\ input = ArchiveInput
    /\ env \in ArchiveEnvs
    /\ Idle
    /\ fmt = NoFormat

SpecArchive == InitArchive /\ [][Next]_vars

(* ---------------------- formatAssertResults alone ---------------------- *)

\* Arguments of formatAssertResults: groups of zero to MaxGroupSize results
\* of one URL (run itself only passes the groups of groupBy, which are never
\* empty), either status, and lists of references as uploadResultsToGist
\* returns them.
AuditIds == <<"a1", "a2", "a3", "a4", "a5">>
Group(url, n) ==
    [i \in 1..n |-> Res(AuditIds[i], IF i % 2 = 1 THEN "<=" ELSE ">=", url)]
Groups == {Group(url, n) : url \in {U1, U3}, n \in 0..MaxGroupSize}
Ref(url, id, sha) == [url |-> url, id |-> <<id>>, sha |-> sha]
GistLists == {<<EmptyObject>>, <<Ref(U1, 1, 1)>>, <<Ref(U3, 1, 1), Ref(U1, 2, 3)>>}

InitFormat ==
    /\ input = ArchiveInput
    /\ env = Env(FALSE, ResultsAbsent, <<>>, NoMatchingPull)
    /\ Idle
    /\ fmt \in [groupedResults : SeqsUpTo(Groups, MaxGroups), status : Statuses,
                 gists : GistLists, called : {FALSE}, out : {<<>>}]

\* formatAssertResults({ groupedResults, status, gists }) (output.js:250-295)
Format ==
    /\ ~fmt.called
    /\ fmt' = [fmt EXCEPT !.called = TRUE,
                          !.out = formatAssertResults(fmt.groupedResults, fmt.status, fmt.gists)]
    /\ UNCHANGED <<input, env, status, pc, runs, runError, firstFailure, grouped, changes,
                   uploads, gistsP, store, chat, check, calls>>

NextFormat == Format

SpecFormat == InitFormat /\ [][NextFormat]_vars

(* ------------------------------ claims --------------------------------- *)

AdapterMethods == Methods \ {"readFile", "readdir"}
ChannelMethods == {"webhook.send", "checks.createSuite", "checks.create"}
StoreMethods == {"gists.list", "gists.create", "gists.update"}

\* The two channel switches, as the configuration states them.
ChatConfigured == input.slackNotification /\ input.slackWebhookUrl # ""
CheckConfigured == input.githubNotification /\ input.applicationGithubToken # ""
\* The gate, as the configuration and the argument state it.
GateOpen == input.logLevel = "info" \/ (input.logLevel = "error" /\ status # 0)
Archiving == input.personalGithubToken # ""

EntriesNamed(gistName) == {i \in 1..Len(store) : gistName \in store[i].files}
FailedUploads == {i \in 1..Len(uploads) : uploads[i].st = "failed"}
AllGathered == grouped.st = "ok" /\ changes.st = "ok" /\ gistsP.st = "ok"

\* C1: after any sequence of runs the gist store holds at most one entry
\* whose files include the archive name of a given inspected URL.
C1_OneEntryPerArchiveName ==
    \A url \in URLs : Cardinality(EntriesNamed(GistName(url))) <= 1

\* C2: once every upload has settled, a file whose upload failed (malformed
\* JSON, gists.list, gists.create or gists.update rejected) contributes {}
\* to the fulfilled result of uploadResultsToGist and the other files
\* their references.
C2_FailureYieldsEmptyReference ==
    (FailedUploads # {} /\ \A i \in 1..Len(uploads) : uploads[i].st \in {"done", "failed"})
        => /\ gistsP.st = "ok"
           /\ \A i \in 1..Len(uploads) :
                gistsP.val[i] = IF i \in FailedUploads THEN EmptyObject ELSE uploads[i].gist

\* C3: a call of run does nothing and resolves unless the log level is
\* "info", or "error" with a non-zero status; in those two cases the three
\* gathering operations are started.
C3_Gate ==
    runs > 0 =>
        IF GateOpen
        THEN grouped.st # "none" /\ changes.st # "none" /\ gistsP.st # "none"
        ELSE /\ pc = "resolved"
             /\ calls = NoCalls
             /\ grouped = Unstarted /\ changes = Unstarted /\ gistsP = Unstarted
             /\ uploads = <<>>
             /\ chat = NoChat /\ check = NoCheck

\* Log level "error" and status 0, with everything else configured.
C3_Witness ==
    /\ runs > 0
    /\ input.logLevel = "error" /\ status = 0
    /\ ChatConfigured /\ CheckConfigured /\ Archiving
    /\ pc = "resolved"

\* C4: once the gathering phase has succeeded, webhook.send has been called
\* once if the chat channel is switched on and has a webhook URL and not at
\* all otherwise, likewise checks.createSuite for the check-run channel; no
\* channel call is repeated; with neither channel the run resolves.
C4_ChannelsByConfiguration ==
    AllGathered =>
        /\ calls["webhook.send"] = (IF ChatConfigured THEN 1 ELSE 0)
        /\ calls["checks.createSuite"] = (IF CheckConfigured THEN 1 ELSE 0)
        /\ calls["checks.create"] <= calls["checks.createSuite"]
        /\ chat.st = "none" <=> ~ChatConfigured
        /\ check.st = "none" <=> ~CheckConfigured
        /\ (~ChatConfigured /\ ~CheckConfigured) => pc = "resolved"

\* The chat switch is on without a webhook URL; only the check run is made.
C4_Witness ==
    /\ AllGathered
    /\ input.slackNotification /\ input.slackWebhookUrl = ""
    /\ CheckConfigured
    /\ calls["checks.create"] = 1
    /\ calls["webhook.send"] = 0

C5_Case ==
    /\ runs > 0
    /\ status = 1
    /\ input.logLevel = "error"
    /\ ~ChatConfigured /\ ~CheckConfigured

C6_ExactlyOneLink ==
    changes.st = "ok" => ((changes.val.sha # <<>>) # (changes.val.pullRequest # <<>>))

\* C6 amended: the commit link is always non-empty; the pull-request link is
\* non-empty exactly when a token is supplied and an open pull request's
\* head commit is the current commit (both links are then non-empty).
C6_CommitLinkAlways ==
    changes.st = "ok" =>
        /\ changes.val.sha # <<>>
        /\ (changes.val.pullRequest # <<>>)
             <=> (Archiving /\ \E k \in 1..Len(env.pulls) : env.pulls[k].sha = githubSHA)

\* Both links are set.
C6_Witness ==
    /\ changes.st = "ok"
    /\ changes.val.pullRequest # <<>>
    /\ changes.val.sha # <<>>

\* C7: a run resolves or rejects with one error; when any operation of the
\* run fails the run is rejected with the first error thrown, as thrown,
\* and a run that resolved saw no failure.
C7_FailurePropagates ==
    /\ firstFailure # NoError => (pc = "rejected" /\ runError = firstFailure)
    /\ pc = "rejected" => (runError # NoError /\ runError = firstFailure)
    /\ (\/ Thrown(grouped, changes, gistsP)
         \/ FailedUploads # {}
         \/ chat.st = "failed"
         \/ check.st = "failed") => pc = "rejected"
    /\ pc = "resolved" => (runError = NoError /\ firstFailure = NoError)

\* pulls.list failed first and an upload failed after it.
C7_Witness ==
    /\ pc = "rejected"
    /\ runError = <<"pulls.list", 0>>
    /\ FailedUploads # {}

\* C8: a channel adapter is called only after the results, the change
\* reference and the archiving have all succeeded, and with their joined
\* values; a run in which one of them failed calls no channel.
C8_ChannelsAfterJoin ==
    /\ (chat.st # "none" \/ check.st # "none" \/ \E m \in ChannelMethods : calls[m] > 0)
          => (AllGathered /\ \A i \in 1..Len(uploads) : uploads[i].st = "done")
    /\ chat.st # "none"
          => chat.payload = SlackPayload(status, changes.val, grouped.val, gistsP.val)
    /\ check.st # "none"
          => check.body = CheckBody(status, changes.val, grouped.val, gistsP.val)
    /\ Thrown(grouped, changes, gistsP) => \A m \in ChannelMethods : calls[m] = 0

\* Both channels were called after a file was uploaded.
C8_Witness ==
    /\ chat.st = "pending"
    /\ check.st = "suite"
    /\ Len(uploads) = 1
    /\ Len(grouped.val) = 2

\* C9: without the aggregate results file the grouping is empty and not a
\* failure; the change reference is still resolved, the run fails only on
\* another operation, and each enabled channel gets a report of no URL
\* section.
C9_AbsentResultsFile ==
    (runs > 0 /\ GateOpen /\ env.results.kind = "absent") =>
        /\ grouped = [st |-> "ok", val |-> <<>>]
        /\ changes.st # "none"
        /\ calls["pulls.list"] = (IF Archiving THEN 1 ELSE 0)
        /\ calls["readFile"] = Len(uploads)
        /\ chat.st # "none" => Len(chat.payload.attachments) = 1
        /\ check.st # "none" => check.body.output.summary.results = <<>>
        /\ pc = "rejected" => runError \notin {NoError, <<"results.parse", 0>>}
        /\ (Settled /\ firstFailure = NoError) => pc = "resolved"

\* Both channels got the header alone, with the link of a pull request.
C9_Witness ==
    /\ env.results.kind = "absent"
    /\ pc = "resolved"
    /\ chat.st = "ok"
    /\ check.st = "ok"
    /\ changes.val.pullRequest # <<>>

\* C10: without the archiving token uploadResultsToGist reads no raw file
\* and calls no gist method, yields the single placeholder {}, and no
\* attachment or summary block of the run carries a report link.
C10_NoTokenNoArchive ==
    (runs > 0 /\ GateOpen /\ ~Archiving) =>
        /\ gistsP = [st |-> "ok", val |-> <<EmptyObject>>]
        /\ uploads = <<>>
        /\ \A m \in StoreMethods \cup {"readdir"} : calls[m] = 0
        /\ calls["readFile"] <= 1
        /\ chat.st # "none" =>
              \A k \in 1..Len(chat.payload.attachments) :
                  "title_link" \notin DOMAIN chat.payload.attachments[k]
        /\ check.st # "none" =>
              \A k \in 1..Len(check.body.output.summary.results) :
                  LET block == check.body.output.summary.results[k]
                  IN  block = <<>> \/ block[1][1] = "###"

\* Two URL sections were sent, none with a link.
C10_Witness ==
    /\ ~Archiving
    /\ chat.st = "ok"
    /\ Len(chat.payload.attachments) = 5
    /\ check.st = "ok"
    /\ env.raw # <<>>

\* The step in which gists.list answers upload i / in which its write answers.
ListAnswered(i) ==
    /\ i \in 1..Len(uploads) /\ i \in 1..Len(uploads')
    /\ uploads[i].st = "list" /\ uploads'[i].st = "write"
WriteAnswered(i) ==
    /\ i \in 1..Len(uploads) /\ i \in 1..Len(uploads')
    /\ uploads[i].st = "write" /\ uploads'[i].st = "done"

\* C11: when the listing holds an entry with a file of exactly the derived
\* archive name, the upload calls update with the id of the first such entry
\* (no entry is added, that entry gains a version); otherwise it calls
\* create (one entry is added).  So a later run that finds the entry of an
\* earlier one updates it.
C11_UpdateIfListedElseCreate ==
    [][\A i \in 1..MaxFiles :
         /\ ListAnswered(i) =>
               LET named == EntriesNamed(GistName(uploads[i].url))
               IN  IF named # {}
                   THEN /\ uploads'[i].existing \in named
                        /\ \A j \in named : uploads'[i].existing <= store[j].id
                        /\ calls'["gists.update"] = calls["gists.update"] + 1
                        /\ calls'["gists.create"] = calls["gists.create"]
                   ELSE /\ uploads'[i].existing = 0
                        /\ calls'["gists.create"] = calls["gists.create"] + 1
                        /\ calls'["gists.update"] = calls["gists.update"]
         /\ WriteAnswered(i) =>
               IF uploads[i].existing # 0
               THEN /\ Len(store') = Len(store)
                    /\ store'[uploads[i].existing].versions
                          = store[uploads[i].existing].versions + 1
                    /\ uploads'[i].gist.id = <<uploads[i].existing>>
               ELSE /\ Len(store') = Len(store) + 1
                    /\ store'[Len(store')].files = {GistName(uploads[i].url)}
                    /\ uploads'[i].gist.id = <<Len(store')>>
      ]_vars

\* The second run updated the entry the first run created.
C11_Witness ==
    /\ runs = 2
    /\ Len(store) = 1
    /\ store[1].versions = 2
    /\ calls["gists.update"] = 1
    /\ calls["gists.create"] = 0

\* C12: the concurrent uploads of one run never create two entries of one
\* archive name, whatever the order of their list and create/update steps.
C12_NoTwoCreatesOfOneName ==
    \A i, j \in 1..Len(uploads) :
        (/\ i # j
         /\ uploads[i].st \in {"write", "done"} /\ uploads[i].existing = 0
         /\ uploads[j].st \in {"write", "done"} /\ uploads[j].existing = 0)
            => GistName(uploads[i].url) # GistName(uploads[j].url)

\* The references of the archiving phase made for an inspected URL, as
\* positions in the result of uploadResultsToGist.
ReferencesFor(url) ==
    {i \in 1..Len(gistsP.val) : "url" \in DOMAIN gistsP.val[i] /\ gistsP.val[i].url = url}

\* The viewer link of a reference.
ViewerLink(ref) ==
    <<"https://googlechrome.github.io/lighthouse/viewer/?gist=", ref.id[1], "/", ref.sha>>

\* C13: the section of a URL group carries a report link exactly when the
\* archiving phase returned a reference for the group's URL; the link embeds
\* the id and version of the first such reference, which name an entry of
\* the store holding the archive name of that URL; both channels agree.
C13_LinkIffReference ==
    \A k \in 1..Len(grouped.val) :
        LET url == grouped.val[k][1].url
            refs == ReferencesFor(url)
            first == CHOOSE i \in refs : \A j \in refs : i <= j
        IN  /\ chat.st # "none" =>
                LET link == chat.payload.attachments[2 * k + 1]
                IN  /\ ("title_link" \in DOMAIN link) <=> (refs # {})
                    /\ refs = {} => link = EmptyObject
                    /\ refs # {} =>
                          /\ link.title_link = ViewerLink(gistsP.val[first])
                          /\ gistsP.val[first].id[1] \in 1..Len(store)
                          /\ GistName(url) \in store[gistsP.val[first].id[1]].files
                          /\ gistsP.val[first].sha \in 1..store[gistsP.val[first].id[1]].versions
            /\ check.st # "none" =>
                LET block == check.body.output.summary.results[2 * k]
                IN  IF refs = {} THEN block = <<>>
                    ELSE block = << <<"[", "View Detailed Lighthouse Report", "](">>
                                      \o ViewerLink(gistsP.val[first]) \o <<")">> >>

\* Both channels were sent two sections: the one of the archived URL with a
\* link, the one of the URL that has no raw file without.
C13_Witness ==
    /\ chat.st = "ok" /\ check.st = "ok"
    /\ Len(grouped.val) = 2
    /\ ReferencesFor(grouped.val[1][1].url) # {}
    /\ ReferencesFor(grouped.val[2][1].url) = {}
    /\ "title_link" \in DOMAIN chat.payload.attachments[3]
    /\ chat.payload.attachments[5] = EmptyObject

ChannelErrors == {<<"webhook.send", 0>>, <<"checks.createSuite", 0>>, <<"checks.create", 0>>}
ChatInFlight == chat.st = "pending"
CheckInFlight == check.st \in {"suite", "create"}

\* C14: with both channels enabled, once the gathering has succeeded both
\* webhook.send and checks.createSuite have been called, whatever becomes of
\* either; the run is rejected as soon as one channel fails, with that
\* channel's error, even while the other is in flight, and a later failure
\* of the other does not change the error; it resolves when both succeeded.
C14_BothStartedFirstRejectionWins ==
    /\ [](( ChatConfigured /\ CheckConfigured /\ AllGathered) =>
            /\ calls["webhook.send"] = 1
            /\ calls["checks.createSuite"] = 1
            /\ chat.st # "none" /\ check.st # "none"
            /\ (chat.st = "failed" \/ check.st = "failed")
                  <=> (pc = "rejected" /\ runError \in ChannelErrors)
            /\ (chat.st = "failed" /\ check.st # "failed") => runError = <<"webhook.send", 0>>
            /\ (check.st = "failed" /\ chat.st # "failed") => runError[1] # "webhook.send"
            /\ (chat.st = "ok" /\ check.st = "ok") <=> pc = "resolved"
            /\ pc = "notifying" => (ChatInFlight \/ CheckInFlight))
    /\ [][(pc = "rejected" /\ runs' = runs) => (pc' = "rejected" /\ runError' = runError)]_vars

\* The chat message failed and rejected the run while the check suite,
\* called in the same turn, is still unanswered.
C14_Witness ==
    /\ ChatConfigured /\ CheckConfigured
    /\ pc = "rejected"
    /\ chat.st = "failed"
    /\ check.st = "suite"
    /\ calls["checks.createSuite"] = 1
    /\ runError = <<"webhook.send", 0>>

\* The audit fields of a chat section (all but the trailing ellipsis).
AuditFields(section) ==
    IF section.fields = <<>> THEN <<>> ELSE SubSeq(section.fields, 1, Len(section.fields) - 1)

\* C15: when both channels are sent, the check-run summary has one block
\* per chat attachment after the header, in the same order: the block of a
\* URL section is headed by the section's headline and lists the section's
\* fields, the block of a link shows the same link, and both channels make
\* the same choice of pull-request or commit link and of conclusion.
C15_SameSectionsOnBothChannels ==
    (chat.st # "none" /\ check.st # "none") =>
        LET atts == Tail(chat.payload.attachments)
            header == Head(chat.payload.attachments)
            out == check.body.output
            blocks == out.summary.results
        IN  /\ Len(blocks) = Len(atts)
            /\ Len(atts) = 2 * Len(grouped.val)
            /\ \A k \in 1..Len(grouped.val) :
                 LET section == atts[2 * k - 1]
                     link == atts[2 * k]
                     block == blocks[2 * k - 1]
                     audits == AuditFields(section)
                 IN  /\ SubSeq(section.text, 5, Len(section.text)) = grouped.val[k][1].url
                     /\ block[1] = <<"###", " ">> \o section.text
                     /\ Len(block) = 2 + 2 * Len(audits)
                     /\ \A j \in 1..Len(audits) :
                          /\ block[2 * j] = <<"**">> \o audits[j].title \o <<"**">>
                          /\ block[2 * j + 1] = audits[j].value
                     /\ block[Len(block)] = <<"**", "...", "**">>
                     /\ IF "title_link" \in DOMAIN link
                        THEN blocks[2 * k] = << <<"[", link.title, "](">> \o link.title_link
                                                  \o <<")">> >>
                        ELSE blocks[2 * k] = <<>>
            /\ header.title[2] = out.title[2]
            /\ header.title[2] = check.body.conclusion
            /\ (header.title[1] = "Pull Request ") <=> (out.title[1] = "Pull Request ")
            /\ (header.title[1] = "Pull Request ") <=> (out.summary.changesLink[1] = "[View on GitHub](")
            /\ header.title[4] = out.summary.changesLink[2]

\* Both channels were sent the two sections, one with a report link, under
\* the link of the pull request.
C15_Witness ==
    /\ chat.st = "ok" /\ check.st = "ok"
    /\ Len(chat.payload.attachments) = 5
    /\ "title_link" \in DOMAIN chat.payload.attachments[3]
    /\ Len(check.body.output.summary.results) = 4
    /\ check.body.output.title[1] = "Pull Request "

\* C16: checks.create is called only in the step in which
\* checks.createSuite succeeded, and once; a failed createSuite leaves create
\* uncalled and the run rejected; the check run sent has status "completed"
\* and conclusion "success" when the status is 0, "failure" otherwise.
C16_SuiteThenCreate ==
    /\ [](/\ calls["checks.create"] <= calls["checks.createSuite"]
          /\ calls["checks.create"] <= 1
          /\ check.st = "suite" => calls["checks.create"] = 0
          /\ check.st \in {"create", "ok"} => calls["checks.create"] = 1
          /\ (check.st = "failed" /\ calls["checks.create"] = 0) => pc = "rejected"
          /\ check.st # "none" =>
                /\ check.body.status = "completed"
                /\ check.body.conclusion = (IF status = 0 THEN "success" ELSE "failure")
                /\ check.body.output.title[2] = check.body.conclusion)
    /\ [][/\ (check.st = "suite" /\ check'.st # "suite") =>
                IF check'.st = "create"
                THEN calls'["checks.create"] = calls["checks.create"] + 1
                ELSE /\ check'.st = "failed"
                     /\ calls'["checks.create"] = 0
                     /\ pc' = "rejected"
          /\ (calls'["checks.create"] > calls["checks.create"])
                => (check.st = "suite" /\ check'.st = "create")
         ]_vars

\* A run of status 1 whose createSuite failed: no create, the run rejected.
C16_Witness ==
    /\ status = 1
    /\ check.st = "failed"
    /\ calls["checks.createSuite"] = 1
    /\ calls["checks.create"] = 0
    /\ runError = <<"checks.createSuite", 0>>
    /\ check.body.conclusion = "failure"

\* The open pull requests whose head commit is the current commit, as
\* positions in the listing.
MatchingPulls == {k \in 1..Len(env.pulls) : env.pulls[k].sha = githubSHA}

\* C17: with the token the pull-request link is that of the first listed
\* pull request whose head commit is the current commit, and empty when
\* there is none; without the token pulls.list is not called and the link
\* is empty; the commit link is always https://github.com/o/r/commit/sha0.
C17_FirstMatchingPull ==
    /\ ~Archiving => calls["pulls.list"] = 0
    /\ changes.st = "ok" =>
          /\ changes.val.sha
                = <<"https://github.com", "/", "o", "/", "r", "/", "commit", "/", "sha0">>
          /\ calls["pulls.list"] = (IF Archiving THEN 1 ELSE 0)
          /\ IF Archiving /\ MatchingPulls # {}
             THEN \E k \in MatchingPulls :
                     /\ \A j \in MatchingPulls : k <= j
                     /\ changes.val.pullRequest = env.pulls[k].html_url
             ELSE changes.val.pullRequest = <<>>

\* Two listed pull requests have the current head commit, after one that
\* has not; the link is that of the first of the two.
C17_Witness ==
    /\ changes.st = "ok"
    /\ Cardinality(MatchingPulls) = 2
    /\ 1 \notin MatchingPulls
    /\ changes.val.pullRequest = <<"pr", "8">>

Min(a, b) == IF a < b THEN a ELSE b

\* C18: the section of a group of n results has min(2, n) audit fields,
\* those of the group's first two results in order, followed by one ellipsis
\* field when n > 0 (also when n is 1 or 2); it has no field at all when
\* n = 0.
C18_TwoFieldsAndEllipsis ==
    fmt.called =>
        \A k \in 1..Len(fmt.groupedResults) :
            LET group == fmt.groupedResults[k]
                n == Len(group)
                fields == fmt.out[2 * k - 1].fields
                ellipses == {j \in 1..Len(fields) : fields[j].title = <<"...">>}
            IN  /\ Len(fields) = Min(2, n) + (IF n > 0 THEN 1 ELSE 0)
                /\ \A j \in 1..Min(2, n) :
                      /\ fields[j].title = <<group[j].auditId, ".", group[j].auditProperty>>
                      /\ fields[j].value[1] = group[j].auditTitle
                      /\ fields[j].value[7] = group[j].expected
                      /\ fields[j].value[10] = (IF group[j].operator = "<=" THEN "less then"
                                                ELSE "greater than")
                      /\ fields[j].value[14] = group[j].actual
                /\ ellipses = (IF n > 0 THEN {Len(fields)} ELSE {})
                /\ n > 0 => fields[Len(fields)] = [title |-> <<"...">>, value |-> <<>>]
                /\ n = 0 => fields = <<>>

\* Groups of no result and of one result were formatted; the second has
\* its one field and the ellipsis.
C18_Witness ==
    /\ fmt.called
    /\ Len(fmt.groupedResults) = 2
    /\ Len(fmt.groupedResults[1]) = 0
    /\ Len(fmt.groupedResults[2]) = 1
    /\ fmt.out[1].fields = <<>>
    /\ Len(fmt.out[3].fields) = 2

\* C19: in everything a run sends, the header, every URL section and every
\* report link are "good" and the check run's conclusion is "success" when
\* the status is 0; they are "danger" and "failure" otherwise, whatever the
\* audit results say.
C19_RunGlobalColors ==
    LET color == IF status = 0 THEN "good" ELSE "danger"
        conclusion == IF status = 0 THEN "success" ELSE "failure"
    IN  /\ chat.st # "none" =>
              LET atts == chat.payload.attachments
              IN  /\ atts[1].color = color
                  /\ atts[1].title[2] = conclusion
                  /\ \A k \in 1..Len(grouped.val) : atts[2 * k].color = color
                  /\ \A k \in 1..Len(atts) :
                        "color" \in DOMAIN atts[k] => atts[k].color = color
        /\ check.st # "none" =>
              /\ check.body.conclusion = conclusion
              /\ check.body.output.title[2] = conclusion

\* A run of status 1 sent two sections and a report link, all "danger", and
\* a check run of conclusion "failure".
C19_Witness ==
    /\ status = 1
    /\ chat.st = "ok" /\ check.st = "ok"
    /\ Len(chat.payload.attachments) = 5
    /\ chat.payload.attachments[2].color = "danger"
    /\ "title_link" \in DOMAIN chat.payload.attachments[3]
    /\ chat.payload.attachments[3].color = "danger"
    /\ check.body.conclusion = "failure"

\* C20: the headline of the section of a URL group is the number of the
\* group's results plus one, " result(s) for ", and the URL of the group's
\* first result.
C20_HeadlineCountsOneMore ==
    fmt.called =>
        \A k \in 1..Len(fmt.groupedResults) :
            LET group == fmt.groupedResults[k]
                text == fmt.out[2 * k - 1].text
            IN  /\ text[1] = Len(group) + 1
                /\ SubSeq(text, 2, 4) = <<" ", "result(s) for", " ">>
                /\ SubSeq(text, 5, Len(text)) = (IF group = <<>> THEN <<>> ELSE group[1].url)

\* A group of three results is headlined "4 result(s) for https://c".
C20_Witness ==
    /\ fmt.called
    /\ Len(fmt.groupedResults) = 1
    /\ Len(fmt.groupedResults[1]) = 3
    /\ fmt.out[1].text = <<4, " ", "result(s) for", " ">> \o U3

====
